---- MODULE Spec2Model ----
(***************************************************************************)
(* A model of streamlit_app.py: the paginated inventory fetch              *)
(* (fetch_steam_inventory), its join step, and the inventory comparison    *)
(* (analyze_inventories_for_streamlit).                                    *)
(*                                                                         *)
(* A Python dict is a TLA+ function whose DOMAIN is the set of keys that   *)
(* are present: "k in d" is k \in DOMAIN d and d.get(k, default) is Get.   *)
(* A dict whose iteration order matters (asset_quantities) is a sequence   *)
(* of entries in insertion order.                                          *)
(*                                                                         *)
(* The script below the function definitions is modelled as the session    *)
(* state machine of one browser session: one action per script run.        *)
(***************************************************************************)
EXTENDS Integers, Sequences, FiniteSets, TLC

VARIABLES
    pc,                \* position in fetch_steam_inventory: "request", "assets", "descs", "sleep", "done"; "idle" outside a call
    page_count,        \* page_count
    start_assetid,     \* start_assetid (None until a page hands out a cursor)
    more_items,        \* more_items, the loop condition
    asset_quantities,  \* asset_quantities: classid -> quantity, in insertion order
    all_descriptions,  \* all_descriptions: classid -> description object
    result,            \* what the call returned
    response,          \* the outcome of the latest request and, for a JSON object, data
    url,               \* the query parameters of the url of the latest request (None before the first)
    sleeps,            \* how many times time.sleep was called
    seen_assets,       \* history: how many times each asset record was iterated over so far
    desc_log,          \* history: every description object iterated over so far, in order
    fixed_user_inv,    \* analyze_inventories_for_streamlit: first argument
    your_inv,          \* analyze_inventories_for_streamlit: second argument
    results,           \* analyze_inventories_for_streamlit(fixed_user_inv, your_inv)
    results_swapped,   \* analyze_inventories_for_streamlit(your_inv, fixed_user_inv)
    queried_steam_id,         \* st.session_state.queried_steam_id
    analysis_triggered_once,  \* st.session_state.analysis_triggered_once
    initiate_auto_analysis,   \* st.session_state.initiate_auto_analysis
    last_analysis_timestamp,  \* st.session_state.last_analysis_timestamp
    last_analyzed_id,         \* st.session_state.last_analyzed_id
    show_login_error,         \* st.session_state.show_login_error
    st_query_params,   \* what the name st.query_params is bound to: "proxy" (the url's parameters) or "dict"
    rerun_pending,     \* the latest script run ended in st.rerun()
    rendered,          \* what the latest script run left on the page: "nothing", "form", "results"
    analysis_arg,      \* the argument of run_inventory_analysis in the latest script run, NoneType without a call
    run_input,         \* the url parameters and the widget event the latest script run started with
    clock              \* time.time()

fetchVars == <<pc, page_count, start_assetid, more_items, asset_quantities,
               all_descriptions, result, response, url, sleeps, seen_assets, desc_log>>
diffVars == <<fixed_user_inv, your_inv, results, results_swapped>>
sessionVars == <<queried_steam_id, analysis_triggered_once, initiate_auto_analysis,
                 last_analysis_timestamp, last_analyzed_id, show_login_error,
                 st_query_params, rerun_pending, rendered, analysis_arg, run_input, clock>>
vars == <<pc, page_count, start_assetid, more_items, asset_quantities,
          all_descriptions, result, response, url, sleeps, seen_assets, desc_log,
          fixed_user_inv, your_inv, results, results_swapped,
          queried_steam_id, analysis_triggered_once, initiate_auto_analysis,
          last_analysis_timestamp, last_analyzed_id, show_login_error,
          st_query_params, rerun_pending, rendered, analysis_arg, run_input, clock>>

(***************************************************************************)
(* Bounds of the model.                                                    *)
(***************************************************************************)
MaxPages == 3
MaxAssets == 2
MaxDescs == 2
MaxQuantity == 2
MaxClock == 24

(***************************************************************************)
(* Python values.                                                          *)
(***************************************************************************)
None == "<None>"

Get(d, k, default) == IF k \in DOMAIN d THEN d[k] ELSE default

EmptyDict == [k \in {} |-> None]

(***************************************************************************)
(* What the inventory endpoint can send.                                   *)
(***************************************************************************)
ClassIds == {"c1", "c2"}

\* 'amount' arrives as a decimal string, here its sequence of digits.  The
\* code puts no condition on the number it reads, so "0" is among them.
Amounts == {<<"0">>, <<"1", "0">>}

AssetRecords == [classid: ClassIds, amount: Amounts] \cup [classid: ClassIds]

UnknownKeyOfC1 == "Unknown Item (ClassID: c1)"

\* Description objects: two for c1 that differ in every field, one for c2
\* with c1's market_hash_name, one for c2 without market_hash_name whose
\* name is the key of another, and one whose market_hash_name is the text
\* the join synthesizes for a classid without description.
DescriptionRecords ==
    { [classid |-> "c1", market_hash_name |-> "A", name |-> "Alpha",
       icon_url |-> <<"/", "i", "a">>, tradable |-> 1, marketable |-> 1, tags |-> <<"t1">>],
      [classid |-> "c1", market_hash_name |-> "B", name |-> "Beta",
       icon_url |-> <<>>, tradable |-> 0, marketable |-> 0],
      [classid |-> "c2", market_hash_name |-> "A", name |-> "Gamma",
       icon_url |-> <<"i", "c">>, tradable |-> 0, marketable |-> 1, tags |-> <<"t2">>],
      [classid |-> "c2", name |-> "B", tradable |-> 1],
      [classid |-> "c2", market_hash_name |-> UnknownKeyOfC1, name |-> "Delta",
       icon_url |-> <<"i", "d">>, tradable |-> 1, marketable |-> 1] }

LastAssetIds == {"a1", "a2"}

\* more_items and last_assetid of a page that carries both lists.
\* total_inventory_count is not read on such a page and is left out.
PageFooters == [more_items: {TRUE}, last_assetid: LastAssetIds] \cup [more_items: BOOLEAN]

TotalCounts == {0, 2}

\* The two lists of a page that carries both are handed to the loops record
\* by record; data holds this mark in their place.
Streamed == "<streamed>"

\* Objects that lack 'assets' or 'descriptions' (or both).  Only the keys
\* present, total_inventory_count and whether 'assets' is empty are read on
\* such a page: the cursor fields are left out, and a list that is present
\* is empty or holds one record, which is never looked at.
PartialPages ==
    LET body == {EmptyDict}
                  \cup [assets : {<<>>, <<[classid |-> "c1"]>>}]
                  \cup [descriptions : {<<>>, <<[classid |-> "c1"]>>}]
        count == {EmptyDict} \cup [total_inventory_count : TotalCounts]
    IN  { b @@ c : b \in body, c \in count }

(***************************************************************************)
(* What a call returns: a status string or the inventory dict.             *)
(***************************************************************************)
NoResult == [kind |-> "none"]
Status(code) == [kind |-> "status", code |-> code]
Inventory(items) == [kind |-> "inventory", items |-> items]

(***************************************************************************)
(* Conversions.                                                            *)
(***************************************************************************)
DigitValue(ch) ==
    CASE ch = "0" -> 0 [] ch = "1" -> 1 [] ch = "2" -> 2 [] ch = "3" -> 3 [] ch = "4" -> 4
      [] ch = "5" -> 5 [] ch = "6" -> 6 [] ch = "7" -> 7 [] ch = "8" -> 8 [] ch = "9" -> 9

\* int(s) for a string of decimal digits.
RECURSIVE IntOfDigits(_)
IntOfDigits(s) ==
    IF s = <<>> THEN 0
    ELSE IntOfDigits(SubSeq(s, 1, Len(s) - 1)) * 10 + DigitValue(s[Len(s)])

\* Mutant of AmountOf: a record without 'amount' counts as no item.
AmountOfDefaultZero(asset) ==
    IF "amount" \in DOMAIN asset THEN IntOfDigits(asset.amount) ELSE 0

\* int(asset.get('amount', 1))
AmountOf(asset) ==
    IF "amount" \in DOMAIN asset THEN IntOfDigits(asset.amount) ELSE 1

\* s.lstrip('/'), on a string given as its sequence of characters.
RECURSIVE LStripSlash(_)
LStripSlash(s) ==
    IF s # <<>> /\ Head(s) = "/" THEN LStripSlash(Tail(s)) ELSE s

\* full_icon_url, as the sequence of its parts.
FullIconUrl(icon_url_suffix) ==
    IF icon_url_suffix # <<>>
    THEN <<"https://community.cloudflare.steamstatic.com/economy/image/">>
           \o LStripSlash(icon_url_suffix) \o <<"/120x50">>
    ELSE <<>>

\* d[k] = v on a dict.
Put(d, k, v) == [x \in DOMAIN d \cup {k} |-> IF x = k THEN v ELSE d[x]]

(***************************************************************************)
(* The loop bodies of fetch_steam_inventory.                               *)
(***************************************************************************)
\* The position of classid in the ordered dict, 0 when it is not a key.
IndexOf(quantities, classid) ==
    IF \E i \in 1..Len(quantities) : quantities[i].classid = classid
    THEN CHOOSE i \in 1..Len(quantities) : quantities[i].classid = classid
    ELSE 0

\* asset_quantities[classid] = asset_quantities.get(classid, 0) + quantity
AddAsset(quantities, asset) ==
    LET classid == asset.classid
        quantity == AmountOf(asset)
        i == IndexOf(quantities, classid)
    IN  IF i = 0
        THEN Append(quantities, [classid |-> classid, quantity |-> 0 + quantity])
        ELSE [quantities EXCEPT ![i].quantity = @ + quantity]

\* Mutant of AddDescription: the membership test is dropped, the last one wins.
AddDescriptionLastWins(descriptions, desc) ==
    Put(descriptions, desc.classid, desc)

\* if classid not in all_descriptions: all_descriptions[classid] = desc
AddDescription(descriptions, desc) ==
    IF desc.classid \notin DOMAIN descriptions
    THEN Put(descriptions, desc.classid, desc)
    ELSE descriptions

\* market_hash_name of a classid that has a description.
MarketHashName(desc_obj, classid) ==
    Get(desc_obj, "market_hash_name", Get(desc_obj, "name", "Unknown Item " \o classid))

\* The key synthesized for a classid that has no description.
UnknownKey(classid) == "Unknown Item (ClassID: " \o classid \o ")"

\* The entry created for a key that is not yet in detailed_items_data.
NewItem(desc_obj, classid) ==
    [quantity |-> 0,
     icon_url |-> FullIconUrl(Get(desc_obj, "icon_url", <<>>)),
     name |-> Get(desc_obj, "name", "Unknown Item"),
     classid |-> classid,
     tradable |-> (Get(desc_obj, "tradable", 0) = 1),
     marketable |-> (Get(desc_obj, "marketable", 0) = 1),
     tags |-> Get(desc_obj, "tags", <<>>)]

\* The entry assigned for a classid that has no description.
UnknownItem(classid, quantity) ==
    [quantity |-> quantity, icon_url |-> <<>>, name |-> UnknownKey(classid),
     classid |-> classid, tradable |-> FALSE, marketable |-> FALSE, tags |-> <<>>]

\* One iteration of the join loop.
JoinStep(detailed_items_data, descriptions, entry) ==
    LET classid == entry.classid
        quantity == entry.quantity
    IN  IF classid \in DOMAIN descriptions
        THEN LET desc_obj == descriptions[classid]
                 market_hash_name == MarketHashName(desc_obj, classid)
                 created == IF market_hash_name \notin DOMAIN detailed_items_data
                            THEN Put(detailed_items_data, market_hash_name,
                                     NewItem(desc_obj, classid))
                            ELSE detailed_items_data
             IN  [created EXCEPT ![market_hash_name].quantity = @ + quantity]
        ELSE Put(detailed_items_data, UnknownKey(classid), UnknownItem(classid, quantity))

\* The join loop over asset_quantities.items(), in insertion order.
RECURSIVE JoinFrom(_, _, _, _)
JoinFrom(detailed_items_data, quantities, descriptions, i) ==
    IF i > Len(quantities) THEN detailed_items_data
    ELSE JoinFrom(JoinStep(detailed_items_data, descriptions, quantities[i]),
                  quantities, descriptions, i + 1)

Join(quantities, descriptions) == JoinFrom(EmptyDict, quantities, descriptions, 1)

(***************************************************************************)
(* fetch_steam_inventory as a state machine.  One action per outcome of    *)
(* requests.get / response.json, one per iteration of the two loops over   *)
(* a page, one for the end of a page, one for the sleep between pages.     *)
(***************************************************************************)
NoResponse == [kind |-> "none"]

InitFetch ==
    /\ pc = "request"
    /\ page_count = 0
    /\ start_assetid = None
    /\ more_items = TRUE
    /\ asset_quantities = <<>>
    /\ all_descriptions = EmptyDict
    /\ result = NoResult
    /\ response = NoResponse
    /\ url = None
    /\ sleeps = 0
    /\ seen_assets = [a \in AssetRecords |-> 0]
    /\ desc_log = <<>>

RECURSIVE CountAll(_, _)
CountAll(bag, S) ==
    IF S = {} THEN 0
    ELSE LET a == CHOOSE x \in S : TRUE IN bag[a] + CountAll(bag, S \ {a})

AssetsSeen == CountAll(seen_assets, AssetRecords)

\* Mutant of Url: the cursor is never appended.
UrlWithoutCursor(cursor) == [l |-> "english", count |-> "5000"]

\* The query string of the url built at the head of the loop:
\* "&start_assetid=..." is appended if start_assetid is truthy.
Url(cursor) ==
    [l |-> "english", count |-> "5000"]
        @@ (IF cursor # None /\ cursor # "" THEN [start_assetid |-> cursor] ELSE EmptyDict)

\* The head of the while loop: page_count += 1 and the request is sent.
Requesting ==
    /\ pc = "request"
    /\ more_items
    /\ page_count < MaxPages

\* A return statement inside the loop.
Return(kind, value) ==
    /\ page_count' = page_count + 1
    /\ url' = Url(start_assetid)
    /\ response' = [kind |-> kind]
    /\ result' = value
    /\ pc' = "done"
    /\ UNCHANGED <<start_assetid, more_items, asset_quantities, all_descriptions,
                   sleeps, seen_assets, desc_log>>
    /\ UNCHANGED <<diffVars, sessionVars>>

\* Mutant of RequestTimesOut: the RequestException clause comes before the
\* Timeout clause and catches the timeout.
RequestTimesOutCaughtAsFailure ==
    /\ Requesting
    /\ Return("timeout", Status("network_error"))

\* requests.get raises requests.exceptions.Timeout.
RequestTimesOut ==
    /\ Requesting
    /\ Return("timeout", Status("request_timeout"))

\* requests.get or raise_for_status raises another RequestException.
RequestFails ==
    /\ Requesting
    /\ Return("failure", Status("network_error"))

\* response.json() cannot parse the body.  It raises json.JSONDecodeError, a
\* ValueError, with requests before 2.27; from 2.27 on it raises
\* requests.exceptions.JSONDecodeError, which is a ValueError and a
\* RequestException, and the RequestException clause comes first.
JsonDecodeErrorCodes == {"api_decode_error", "network_error"}

BodyUndecodable ==
    /\ Requesting
    /\ \E code \in JsonDecodeErrorCodes : Return("undecodable", Status(code))

\* The body parses to null or to a value that is not a dict.
BodyNotObject ==
    /\ Requesting
    /\ Return("not_object", Status("inventory_private_or_empty"))

HasBothLists(data) == "assets" \in DOMAIN data /\ "descriptions" \in DOMAIN data

\* not data.get('assets')
NoAssets(data) == "assets" \notin DOMAIN data \/ data.assets = <<>>

\* The body is a dict with 'assets' and 'descriptions': the loops run next.
ReceivePage ==
    /\ Requesting
    /\ page_count' = page_count + 1
    /\ url' = Url(start_assetid)
    /\ response' = [kind |-> "object",
                    data |-> [assets |-> Streamed, descriptions |-> Streamed]]
    /\ pc' = "assets"
    /\ UNCHANGED <<start_assetid, more_items, asset_quantities, all_descriptions,
                   result, sleeps, seen_assets, desc_log>>
    /\ UNCHANGED <<diffVars, sessionVars>>

\* Mutant of ClassifyPartialPage: the test of 'assets' is dropped.
ClassifyPartialPageIgnoringAssets(data, count) ==
    IF Get(data, "total_inventory_count", 0) = 0 THEN "inventory_empty"
    ELSE IF count = 1 THEN "inventory_private_or_error"
    ELSE "stop"

\* Mutant of ClassifyPartialPage: the first page is taken for a later one.
ClassifyPartialPageNoFirstPage(data, count) ==
    IF Get(data, "total_inventory_count", 0) = 0 /\ NoAssets(data) THEN "inventory_empty"
    ELSE IF count = 0 THEN "inventory_private_or_error"
    ELSE "stop"

\* The elif / else branches taken by a dict without 'assets' or without
\* 'descriptions', on the page numbered count: a status to return, or "stop"
\* for more_items = False.
ClassifyPartialPage(data, count) ==
    IF Get(data, "total_inventory_count", 0) = 0 /\ NoAssets(data) THEN "inventory_empty"
    ELSE IF count = 1 THEN "inventory_private_or_error"
    ELSE "stop"

\* The body is a dict without 'assets' or without 'descriptions'.
ReceivePartialPage ==
    /\ Requesting
    /\ \E data \in PartialPages :
        /\ ~HasBothLists(data)
        /\ page_count' = page_count + 1
        /\ url' = Url(start_assetid)
        /\ response' = [kind |-> "object", data |-> data]
        /\ LET outcome == ClassifyPartialPage(data, page_count')
           IN  IF outcome = "stop"
               THEN /\ more_items' = FALSE
                    /\ result' = Inventory(Join(asset_quantities, all_descriptions))
               ELSE /\ result' = Status(outcome)
                    /\ UNCHANGED more_items
        /\ pc' = "done"
        /\ UNCHANGED <<start_assetid, asset_quantities, all_descriptions,
                       sleeps, seen_assets, desc_log>>
        /\ UNCHANGED <<diffVars, sessionVars>>

\* One iteration of: for asset in current_page_assets
AssetIteration ==
    /\ pc = "assets"
    /\ AssetsSeen < MaxAssets
    /\ \E asset \in AssetRecords :
        /\ asset_quantities' = AddAsset(asset_quantities, asset)
        /\ seen_assets' = [seen_assets EXCEPT ![asset] = @ + 1]
    /\ UNCHANGED <<pc, page_count, start_assetid, more_items, all_descriptions,
                   result, response, url, sleeps, desc_log>>
    /\ UNCHANGED <<diffVars, sessionVars>>

\* One iteration of: for desc in data['descriptions']
DescriptionIteration ==
    /\ pc \in {"assets", "descs"}
    /\ Len(desc_log) < MaxDescs
    /\ \E desc \in DescriptionRecords :
        /\ all_descriptions' = AddDescription(all_descriptions, desc)
        /\ desc_log' = Append(desc_log, desc)
    /\ pc' = "descs"
    /\ UNCHANGED <<page_count, start_assetid, more_items, asset_quantities,
                   result, response, url, sleeps, seen_assets>>
    /\ UNCHANGED <<diffVars, sessionVars>>

\* data.get('more_items') and data.get('last_assetid')
Continues(data) ==
    /\ Get(data, "more_items", FALSE)
    /\ Get(data, "last_assetid", "") # ""

\* Both loops are over: the page names a cursor and the sleep follows, or the
\* while loop ends and the join builds the returned dict.
EndOfPage ==
    /\ pc \in {"assets", "descs"}
    /\ \E footer \in PageFooters :
        /\ response' = [response EXCEPT !.data = footer @@ @]
        /\ IF Continues(footer)
           THEN /\ start_assetid' = footer.last_assetid
                /\ pc' = "sleep"
                /\ UNCHANGED <<more_items, result>>
           ELSE /\ more_items' = FALSE
                /\ result' = Inventory(Join(asset_quantities, all_descriptions))
                /\ pc' = "done"
                /\ UNCHANGED start_assetid
    /\ UNCHANGED <<page_count, asset_quantities, all_descriptions, url, sleeps,
                   seen_assets, desc_log>>
    /\ UNCHANGED <<diffVars, sessionVars>>

\* Mutant of Sleep: the loop goes on without the call of time.sleep.
SleepSkipped ==
    /\ pc = "sleep"
    /\ pc' = "request"
    /\ UNCHANGED <<page_count, start_assetid, more_items, asset_quantities,
                   all_descriptions, result, response, url, sleeps, seen_assets, desc_log>>
    /\ UNCHANGED <<diffVars, sessionVars>>

\* time.sleep(0.6), then the next iteration of the while loop.
Sleep ==
    /\ pc = "sleep"
    /\ sleeps' = sleeps + 1
    /\ pc' = "request"
    /\ UNCHANGED <<page_count, start_assetid, more_items, asset_quantities,
                   all_descriptions, result, response, url, seen_assets, desc_log>>
    /\ UNCHANGED <<diffVars, sessionVars>>

(***************************************************************************)
(* Values of the session state machine.  A string the code takes apart     *)
(* (isdigit, len, the regular expression) is the sequence of its            *)
(* characters; Str and NoneType keep a string and None comparable.          *)
(***************************************************************************)
NoneType == [type |-> "NoneType"]
Str(chars) == [type |-> "str", chars |-> chars]

\* bool(v) for None or a string.
Truthy(v) == v # NoneType /\ v # Str(<<>>)

SteamIdLength == 17
COOLDOWN_SECONDS == 10

\* time.time() when the session starts, counted from COOLDOWN_SECONDS so that
\* the initial last_analysis_timestamp of 0 lies a full cooldown back.
StartOfSession == COOLDOWN_SECONDS

\* The session state of lines 369-380, and nothing run yet.
SessionInit ==
    /\ queried_steam_id = NoneType
    /\ analysis_triggered_once = FALSE
    /\ initiate_auto_analysis = FALSE
    /\ last_analysis_timestamp = 0
    /\ last_analyzed_id = NoneType
    /\ show_login_error = FALSE
    /\ st_query_params = "proxy"
    /\ rerun_pending = FALSE
    /\ rendered = "nothing"
    /\ analysis_arg = NoneType
    /\ run_input = [mode |-> None, claimed_id |-> NoneType, button |-> None, text |-> <<>>]
    /\ clock = StartOfSession

DiffIdle ==
    /\ fixed_user_inv = EmptyDict
    /\ your_inv = EmptyDict
    /\ results = EmptyDict
    /\ results_swapped = EmptyDict

Init == InitFetch /\ DiffIdle /\ SessionInit

Next ==
    \/ RequestTimesOut
    \/ RequestFails
    \/ BodyUndecodable
    \/ BodyNotObject
    \/ ReceivePage
    \/ ReceivePartialPage
    \/ AssetIteration
    \/ DescriptionIteration
    \/ EndOfPage
    \/ Sleep

Spec == Init /\ [][Next]_vars

(***************************************************************************)
(* analyze_inventories_for_streamlit.                                      *)
(***************************************************************************)
\* Mutant of TradableDuplicates: quantity >= 1 for quantity > 1.
TradableDuplicatesFromOne(inv) ==
    [item_hash \in {h \in DOMAIN inv : inv[h].quantity >= 1 /\ inv[h].tradable}
        |-> inv[item_hash]]

\* First loop: the first inventory's entries with quantity > 1 that are tradable.
TradableDuplicates(inv) ==
    [item_hash \in {h \in DOMAIN inv : inv[h].quantity > 1 /\ inv[h].tradable}
        |-> inv[item_hash]]

\* Second loop: those of the first inventory whose key is not in the second.
HasOtherLacksDupes(inv, other) ==
    [item_hash \in {h \in DOMAIN inv : /\ inv[h].quantity > 1
                                        /\ inv[h].tradable
                                        /\ h \notin DOMAIN other}
        |-> inv[item_hash]]

\* Mutant of OtherHasLacksDupes: the tradable test is dropped.
OtherHasLacksDupesAnyItem(inv, other) ==
    [item_hash \in {h \in DOMAIN other : /\ other[h].quantity > 1
                                          /\ h \notin DOMAIN inv}
        |-> other[item_hash]]

\* Third loop: those of the second inventory whose key is not in the first.
OtherHasLacksDupes(inv, other) ==
    [item_hash \in {h \in DOMAIN other : /\ other[h].quantity > 1
                                          /\ other[h].tradable
                                          /\ h \notin DOMAIN inv}
        |-> other[item_hash]]

analyze_inventories_for_streamlit(first_inv, second_inv) ==
    [fixed_user_tradable_duplicates |-> TradableDuplicates(first_inv),
     fixed_user_has_you_dont_dupes |-> HasOtherLacksDupes(first_inv, second_inv),
     you_have_fixed_user_doesnt_dupes |-> OtherHasLacksDupes(first_inv, second_inv)]

\* The inventories the comparison is applied to: entries as the join builds
\* them, of which the comparison reads quantity and tradable and copies the
\* rest (here classid).
DiffKeys == {"A", "B"}
DiffItems == [quantity: 1..MaxQuantity, tradable: BOOLEAN, classid: ClassIds]
Inventories == UNION {[K -> DiffItems] : K \in SUBSET DiffKeys}

FetchIdle ==
    /\ pc = "idle"
    /\ page_count = 0
    /\ start_assetid = None
    /\ more_items = TRUE
    /\ asset_quantities = <<>>
    /\ all_descriptions = EmptyDict
    /\ result = NoResult
    /\ response = NoResponse
    /\ url = None
    /\ sleeps = 0
    /\ seen_assets = [a \in AssetRecords |-> 0]
    /\ desc_log = <<>>

InitDiff ==
    /\ FetchIdle
    /\ SessionInit
    /\ fixed_user_inv \in Inventories
    /\ your_inv \in Inventories
    /\ results = EmptyDict
    /\ results_swapped = EmptyDict

\* analyze_inventories_for_streamlit(fixed_user_inv, your_inv) returns.
Analyze ==
    /\ results = EmptyDict
    /\ results' = analyze_inventories_for_streamlit(fixed_user_inv, your_inv)
    /\ UNCHANGED <<fixed_user_inv, your_inv, results_swapped>>
    /\ UNCHANGED <<fetchVars, sessionVars>>

\* The same call with the two inventories swapped returns.
AnalyzeSwapped ==
    /\ results_swapped = EmptyDict
    /\ results_swapped' = analyze_inventories_for_streamlit(your_inv, fixed_user_inv)
    /\ UNCHANGED <<fixed_user_inv, your_inv, results>>
    /\ UNCHANGED <<fetchVars, sessionVars>>

NextDiff == Analyze \/ AnalyzeSwapped

SpecDiff == InitDiff /\ [][NextDiff]_vars

(***************************************************************************)
(* The session state machine: the script from line 369 on.  Streamlit runs *)
(* the script from the top on every page load and every widget event;      *)
(* st.session_state lasts from run to run, st.rerun() ends the run and     *)
(* starts the next one at once.                                            *)
(***************************************************************************)
Digits == {"0", "1", "2", "3", "4", "5", "6", "7", "8", "9"}

\* s.isdigit()
isdigit(s) == s # <<>> /\ \A i \in 1..Len(s) : s[i] \in Digits

\* Mutant of IsSteamId64: the length is not tested.
IsSteamId64AnyLength(s) == isdigit(s)

\* s.isdigit() and len(s) == 17
IsSteamId64(s) == isdigit(s) /\ Len(s) = SteamIdLength

\* Strings a user or an OpenID provider can send: two SteamID64s, one digit
\* less, one digit more, a letter in the last place.
SteamIdA == <<"7", "6", "5", "6", "1", "1", "9", "7", "9", "6", "0", "2", "8", "7", "9", "3", "0">>
SteamIdB == <<"7", "6", "5", "6", "1", "1", "9", "7", "9", "8", "9", "6", "7", "6", "1", "4", "0">>
TooShort == SubSeq(SteamIdA, 1, SteamIdLength - 1)
TooLong == SteamIdA \o <<"1">>
WithLetter == TooShort \o <<"x">>

ManualInputs == {<<>>, SteamIdA, SteamIdB, TooShort, TooLong, WithLetter}

\* openid.claimed_id: the text head followed by the characters of tail.
OpenIdPrefix == "https://steamcommunity.com/openid/id/"

ClaimedIds ==
    [head : {OpenIdPrefix, "https://example.org/openid/id/"},
     tail : {SteamIdA, TooShort, TooLong, SteamIdA \o <<"x">>, <<"x">> \o SteamIdA, <<>>}]

\* The longest run of digits a string starts with: what (\d+) matches there.
RECURSIVE DigitsPrefix(_)
DigitsPrefix(s) ==
    IF s = <<>> THEN <<>>
    ELSE IF Head(s) \notin Digits THEN <<>>
    ELSE <<Head(s)>> \o DigitsPrefix(Tail(s))

\* re.search(r"https://steamcommunity.com/openid/id/(\d+)", s): group(1) of
\* the match, NoneType without a match.
re_search(claimed_id) ==
    IF claimed_id.head = OpenIdPrefix /\ DigitsPrefix(claimed_id.tail) # <<>>
    THEN Str(DigitsPrefix(claimed_id.tail))
    ELSE NoneType

\* st.session_state as one record.
SessionState ==
    [queried_steam_id |-> queried_steam_id,
     analysis_triggered_once |-> analysis_triggered_once,
     initiate_auto_analysis |-> initiate_auto_analysis,
     last_analysis_timestamp |-> last_analysis_timestamp,
     last_analyzed_id |-> last_analyzed_id,
     show_login_error |-> show_login_error]

reset_analysis_state(ss) ==
    [ss EXCEPT !.queried_steam_id = NoneType,
               !.analysis_triggered_once = FALSE,
               !.initiate_auto_analysis = FALSE]

\* Lines 396-424 on session state; mode is what st.query_params.get("openid.mode")
\* returned.  The st.rerun() of the cancel branch is in Run.
HandleOpenId(ss, mode, claimed_id) ==
    IF mode = "id_res"
    THEN LET match == IF claimed_id = NoneType THEN NoneType ELSE re_search(claimed_id)
         IN  IF match # NoneType
             THEN [ss EXCEPT !.queried_steam_id = match,
                             !.initiate_auto_analysis = TRUE,
                             !.show_login_error = FALSE]
             ELSE [ss EXCEPT !.queried_steam_id = NoneType,
                             !.initiate_auto_analysis = FALSE,
                             !.show_login_error = TRUE]
    ELSE IF mode = "cancel"
    THEN [ss EXCEPT !.show_login_error = TRUE]
    ELSE ss

\* Lines 440-453: the auto-analysis trigger, at the time t.
AutoAnalysis(ss, t) ==
    IF ss.initiate_auto_analysis /\ Truthy(ss.queried_steam_id)
    THEN IF IsSteamId64(ss.queried_steam_id.chars)
         THEN [ss EXCEPT !.initiate_auto_analysis = FALSE,
                         !.analysis_triggered_once = TRUE,
                         !.last_analyzed_id = ss.queried_steam_id,
                         !.last_analysis_timestamp = t]
         ELSE [ss EXCEPT !.initiate_auto_analysis = FALSE,
                         !.queried_steam_id = NoneType,
                         !.analysis_triggered_once = FALSE]
    ELSE ss

\* How a script run ends.
EndOfRun(ss, rerun, page, arg) ==
    [ss |-> ss, rerun |-> rerun, rendered |-> page, analysis_arg |-> arg]

\* Lines 471-552: the form with the manual input, or the results and the
\* call of run_inventory_analysis; button is the button clicked (None
\* without a click) and text the content of the text input.
MainUI(ss, button, text, t) ==
    IF ~ss.analysis_triggered_once
    THEN IF /\ button = "manual_analyze_button"
            /\ text # <<>>
            /\ IsSteamId64(text)
            /\ ~(/\ Str(text) = ss.last_analyzed_id
                 /\ t - ss.last_analysis_timestamp < COOLDOWN_SECONDS)
         THEN EndOfRun([ss EXCEPT !.queried_steam_id = Str(text),
                                  !.analysis_triggered_once = TRUE,
                                  !.last_analyzed_id = Str(text),
                                  !.last_analysis_timestamp = t],
                       TRUE, "nothing", NoneType)
         ELSE EndOfRun(ss, FALSE, "form", NoneType)
    ELSE IF Truthy(ss.queried_steam_id)
         THEN IF button = "analyze_another_top"
              THEN EndOfRun(reset_analysis_state(ss), TRUE, "nothing", NoneType)
              ELSE EndOfRun(ss, FALSE, "results", ss.queried_steam_id)
         ELSE EndOfRun([ss EXCEPT !.analysis_triggered_once = FALSE],
                       TRUE, "nothing", NoneType)

\* The time that passes until a script run reads the clock.
Elapsed == {0, 1, COOLDOWN_SECONDS}

\* One script run: the url carries mode and claimed_id, the widget event is
\* button and text.  Once line 427 has bound the name st.query_params to a
\* dict whose values are None, the url's parameters are not seen any more.
Run(mode, claimed_id, button, text) ==
    \E elapsed \in Elapsed :
        LET t == clock + elapsed
            seen_mode == IF st_query_params = "proxy" THEN mode ELSE None
            cancelled == seen_mode = "cancel"
            after_openid == HandleOpenId(SessionState, seen_mode, claimed_id)
            after_auto == AutoAnalysis(after_openid, t)
            end == IF cancelled
                   THEN EndOfRun(after_openid, TRUE, "nothing", NoneType)
                   ELSE MainUI([after_auto EXCEPT !.show_login_error = FALSE], button, text, t)
        IN  /\ t <= MaxClock
            /\ clock' = t
            /\ queried_steam_id' = end.ss.queried_steam_id
            /\ analysis_triggered_once' = end.ss.analysis_triggered_once
            /\ initiate_auto_analysis' = end.ss.initiate_auto_analysis
            /\ last_analysis_timestamp' = end.ss.last_analysis_timestamp
            /\ last_analyzed_id' = end.ss.last_analyzed_id
            /\ show_login_error' = end.ss.show_login_error
            /\ st_query_params' = IF cancelled THEN "dict" ELSE st_query_params
            /\ rerun_pending' = end.rerun
            /\ rendered' = end.rendered
            /\ analysis_arg' = end.analysis_arg
            /\ run_input' = [mode |-> mode, claimed_id |-> claimed_id,
                             button |-> button, text |-> text]
            /\ UNCHANGED <<fetchVars, diffVars>>

\* The page is loaded, or reloaded, without an OpenID answer in the url.
PageLoad ==
    /\ ~rerun_pending
    /\ \E mode \in {None, "error"} : Run(mode, NoneType, None, <<>>)

\* The OpenID provider sends the browser back with openid.mode=id_res.
OpenIdReturn ==
    /\ ~rerun_pending
    /\ \E claimed_id \in ClaimedIds \cup {NoneType} : Run("id_res", claimed_id, None, <<>>)

\* The OpenID provider sends the browser back with openid.mode=cancel.
OpenIdCancel ==
    /\ ~rerun_pending
    /\ Run("cancel", NoneType, None, <<>>)

\* "Analyze Inventories" is clicked on the form.
ManualAnalyze ==
    /\ ~rerun_pending
    /\ rendered = "form"
    /\ \E text \in ManualInputs : Run(None, NoneType, "manual_analyze_button", text)

\* "Analyze Another SteamID" is clicked on the results.
AnalyzeAnother ==
    /\ ~rerun_pending
    /\ rendered = "results"
    /\ Run(None, NoneType, "analyze_another_top", <<>>)

\* The run st.rerun() starts: the same url, no widget event.
Rerun ==
    /\ rerun_pending
    /\ Run(IF run_input.mode = "cancel" THEN "cancel" ELSE None, NoneType, None, <<>>)

InitSession ==
    /\ FetchIdle
    /\ DiffIdle
    /\ SessionInit

NextSession ==
    \/ PageLoad
    \/ OpenIdReturn
    \/ OpenIdCancel
    \/ ManualAnalyze
    \/ AnalyzeAnother
    \/ Rerun

SpecSession == InitSession /\ [][NextSession]_vars

(***************************************************************************)
(* Properties of fetch_steam_inventory.                                    *)
(***************************************************************************)
\* The call has returned and issues no further request.
Returned == pc = "done" /\ ~ENABLED Next

ReturnedStatus(code) == Returned /\ result = Status(code)

\* The latest response was a JSON object without 'assets' or without 'descriptions'.
LastPagePartial == response.kind = "object" /\ ~HasBothLists(response.data)

\* The latest response was a JSON object with neither 'assets' nor 'descriptions'.
LastPageLacksBoth ==
    /\ response.kind = "object"
    /\ "assets" \notin DOMAIN response.data
    /\ "descriptions" \notin DOMAIN response.data

\* The value of 'amount' as the endpoint states it; a record without the
\* field counts as one item.
StatedAmount(asset) ==
    IF "amount" \notin DOMAIN asset THEN 1
    ELSE CASE asset.amount = <<"0">> -> 0
           [] asset.amount = <<"1", "0">> -> 10

RECURSIVE SumOfAmounts(_)
SumOfAmounts(S) ==
    IF S = {} THEN 0
    ELSE LET a == CHOOSE x \in S : TRUE
         IN  seen_assets[a] * StatedAmount(a) + SumOfAmounts(S \ {a})

\* The sum of 'amount' over all asset records with this classid on all pages.
AmountsOfClass(classid) == SumOfAmounts({a \in AssetRecords : a.classid = classid})

\* The quantity accumulated for a classid, 0 when there is none.
QuantityOfClass(classid) ==
    LET hits == {i \in 1..Len(asset_quantities) : asset_quantities[i].classid = classid}
    IN  IF hits = {} THEN 0 ELSE asset_quantities[CHOOSE i \in hits : TRUE].quantity

RECURSIVE TotalQuantity(_, _)
TotalQuantity(items, keys) ==
    IF keys = {} THEN 0
    ELSE LET k == CHOOSE x \in keys : TRUE
         IN  items[k].quantity + TotalQuantity(items, keys \ {k})

\* Pagination ran to its normal end: the last page, and so every page,
\* carried both lists, and the inventory was returned.
NormalEnd ==
    /\ pc = "done"
    /\ result.kind = "inventory"
    /\ response.kind = "object"
    /\ HasBothLists(response.data)

\* The first half of C1, which holds: at the normal end of pagination the
\* quantity accumulated for each classid is the sum of 'amount' over the
\* asset records of that classid on all pages.
PerClassQuantityIsSumOfAmounts ==
    NormalEnd => \A c \in ClassIds : QuantityOfClass(c) = AmountsOfClass(c)

\* C1: at the normal end of pagination the quantity accumulated for each
\* classid is the sum of 'amount' over the asset records of that classid on
\* all pages, and the quantities of the returned inventory add up to the sum
\* of all 'amount' values.
C1_QuantitiesAreSumsOfAmounts ==
    NormalEnd =>
        /\ \A c \in ClassIds : QuantityOfClass(c) = AmountsOfClass(c)
        /\ TotalQuantity(result.items, DOMAIN result.items) = SumOfAmounts(AssetRecords)

\* C2: a response on the second or a later page that lacks 'assets' or
\* 'descriptions' ends the call with the inventory joined from the earlier
\* pages, never with a status code.
C2_LaterPartialPageReturnsInventory ==
    (page_count >= 2 /\ LastPagePartial) =>
        /\ pc = "done"
        /\ result = Inventory(Join(asset_quantities, all_descriptions))

\* C3: a body that cannot be parsed, or that parses to null or to a value
\* that is not an object, makes the call return "api_decode_error".
C3_MalformedBodyIsDecodeError ==
    response.kind \in {"undecodable", "not_object"} => ReturnedStatus("api_decode_error")

\* C4: a first-page object with neither 'assets' nor 'descriptions' that
\* reports a nonzero total_inventory_count makes the call return
\* "inventory_private_or_error", and no further request is issued.
C4_FirstPagePrivateOrError ==
    (/\ page_count = 1
     /\ LastPageLacksBoth
     /\ Get(response.data, "total_inventory_count", 0) # 0)
    => ReturnedStatus("inventory_private_or_error")

C4_Witness ==
    /\ page_count = 1
    /\ LastPageLacksBoth
    /\ Get(response.data, "total_inventory_count", 0) = 2
    /\ ReturnedStatus("inventory_private_or_error")

\* The rule that returns "inventory_empty": total_inventory_count is absent
\* or 0 and 'assets' is absent or empty.
ReportsNothing ==
    /\ Get(response.data, "total_inventory_count", 0) = 0
    /\ NoAssets(response.data)

\* The first half of C5: an object of any page with neither list, with
\* total_inventory_count = 0 and no assets, returns "inventory_empty".
EmptyWhenLacksBoth ==
    (/\ LastPageLacksBoth
     /\ "total_inventory_count" \in DOMAIN response.data
     /\ response.data.total_inventory_count = 0)
    => ReturnedStatus("inventory_empty")

C6_TransportErrors ==
    /\ response.kind = "timeout" => ReturnedStatus("request_timeout")
    /\ response.kind = "failure" => ReturnedStatus("network_error")
    /\ response.kind \in {"timeout", "failure"} => DOMAIN result = {"kind", "code"}

C6_Witness ==
    /\ response.kind = "timeout"
    /\ page_count >= 2
    /\ asset_quantities # <<>>
    /\ ReturnedStatus("request_timeout")

\* The first description object with this classid, in the order the
\* descriptions were iterated over (page by page, and in page order).
FirstInLog(classid) ==
    LET hits == {i \in 1..Len(desc_log) : desc_log[i].classid = classid}
    IN  desc_log[CHOOSE i \in hits : \A j \in hits : i <= j]

\* The fields other than quantity of an entry are those built from desc.
BuiltFrom(item, desc, classid) ==
    item = [NewItem(desc, classid) EXCEPT !.quantity = item.quantity]

\* C7: the description kept for a classid is the first one encountered in
\* page order, whatever comes later; an entry of the returned inventory that
\* was created for that classid has the key, name, icon and flags of that
\* first description.
C7_FirstDescriptionWins ==
    /\ DOMAIN all_descriptions = {desc_log[i].classid : i \in 1..Len(desc_log)}
    /\ \A c \in DOMAIN all_descriptions : all_descriptions[c] = FirstInLog(c)
    /\ result.kind = "inventory" =>
         \A i \in 1..Len(asset_quantities) :
            LET c == asset_quantities[i].classid
            IN  c \in DOMAIN all_descriptions =>
                  LET key == MarketHashName(FirstInLog(c), c)
                  IN  /\ key \in DOMAIN result.items
                      /\ result.items[key].classid = c =>
                           BuiltFrom(result.items[key], FirstInLog(c), c)

C7_Witness ==
    /\ pc = "done"
    /\ result.kind = "inventory"
    /\ page_count >= 2
    /\ Len(desc_log) = 2
    /\ desc_log[1].classid = desc_log[2].classid
    /\ desc_log[1] # desc_log[2]
    /\ \E i \in 1..Len(asset_quantities) :
         /\ asset_quantities[i].classid = desc_log[1].classid
         /\ BuiltFrom(result.items[MarketHashName(desc_log[1], desc_log[1].classid)],
                      desc_log[1], desc_log[1].classid)

\* The positions in asset_quantities of the classids that have a description.
Described == {i \in 1..Len(asset_quantities) :
                asset_quantities[i].classid \in DOMAIN all_descriptions}

\* The marketHashName the description of the classid at position i resolves to.
KeyAt(i) ==
    MarketHashName(all_descriptions[asset_quantities[i].classid],
                   asset_quantities[i].classid)

RECURSIVE SumOfQuantities(_)
SumOfQuantities(positions) ==
    IF positions = {} THEN 0
    ELSE LET i == CHOOSE x \in positions : TRUE
         IN  asset_quantities[i].quantity + SumOfQuantities(positions \ {i})

\* The entry of the key of position i is the merge of all described
\* classids with that key: their quantities summed, the other fields those
\* of the first of them.
MergedEntry(i) ==
    LET group == {j \in Described : KeyAt(j) = KeyAt(i)}
        first == CHOOSE j \in group : \A k \in group : j <= k
    IN  /\ KeyAt(i) \in DOMAIN result.items
        /\ result.items[KeyAt(i)].quantity = SumOfQuantities(group)
        /\ BuiltFrom(result.items[KeyAt(i)],
                     all_descriptions[asset_quantities[first].classid],
                     asset_quantities[first].classid)

\* C10: in the returned inventory all classids whose description resolves to
\* the same marketHashName make one entry, whose quantity is the sum of
\* their quantities and whose other fields are those of the first of them;
\* the entry is never overwritten.
C10_SameKeyClassIdsMerge ==
    (pc = "done" /\ result.kind = "inventory") => \A i \in Described : MergedEntry(i)

\* The classids without description, whose entry the join assigns.
Undescribed == {i \in 1..Len(asset_quantities) : i \notin Described}

\* What holds of the join: C10 for every key that is not also the key
\* synthesized for a classid without description.
MergeWhenNoSynthesizedKeyCollides ==
    (pc = "done" /\ result.kind = "inventory") =>
        \A i \in Described :
            (\A u \in Undescribed : UnknownKey(asset_quantities[u].classid) # KeyAt(i))
            => MergedEntry(i)

MergeWitness ==
    /\ pc = "done"
    /\ result.kind = "inventory"
    /\ \E i, j \in Described : i < j /\ KeyAt(i) = KeyAt(j)

(***************************************************************************)
(* Properties of analyze_inventories_for_streamlit.                        *)
(***************************************************************************)
IsDuplicate(inv, k) == inv[k].quantity > 1 /\ inv[k].tradable = TRUE

\* The dict d holds exactly the keys of K, each with its entry of inv.
HoldsExactly(d, K, inv) == DOMAIN d = K /\ \A k \in K : d[k] = inv[k]

\* C8: the three results are the owner's tradable entries with quantity > 1,
\* those of them whose key the counterpart does not have at all, and the
\* counterpart's tradable entries with quantity > 1 whose key the owner does
\* not have; the second is a subset of the first, and all three are empty
\* when every quantity is 1.
C8_AnalyzeResults ==
    results # EmptyDict =>
        LET dups == {k \in DOMAIN fixed_user_inv : IsDuplicate(fixed_user_inv, k)}
        IN  /\ HoldsExactly(results.fixed_user_tradable_duplicates, dups, fixed_user_inv)
            /\ HoldsExactly(results.fixed_user_has_you_dont_dupes,
                            {k \in dups : k \notin DOMAIN your_inv}, fixed_user_inv)
            /\ HoldsExactly(results.you_have_fixed_user_doesnt_dupes,
                            {k \in DOMAIN your_inv : /\ IsDuplicate(your_inv, k)
                                                     /\ k \notin DOMAIN fixed_user_inv},
                            your_inv)
            /\ DOMAIN results.fixed_user_has_you_dont_dupes
                 \subseteq DOMAIN results.fixed_user_tradable_duplicates
            /\ ((\A k \in DOMAIN fixed_user_inv : fixed_user_inv[k].quantity = 1)
                /\ (\A k \in DOMAIN your_inv : your_inv[k].quantity = 1))
               => /\ DOMAIN results.fixed_user_tradable_duplicates = {}
                  /\ DOMAIN results.fixed_user_has_you_dont_dupes = {}
                  /\ DOMAIN results.you_have_fixed_user_doesnt_dupes = {}

\* Both have "A" as a tradable duplicate, only the owner has "B".
C8_Witness ==
    /\ results # EmptyDict
    /\ DOMAIN results.fixed_user_tradable_duplicates = {"A", "B"}
    /\ DOMAIN results.fixed_user_has_you_dont_dupes = {"B"}
    /\ DOMAIN your_inv = {"A"}
    /\ IsDuplicate(your_inv, "A")

\* C9: what the counterpart has and the owner lacks, in the comparison of A
\* with B, is what the owner has and the counterpart lacks in the comparison
\* of B with A.
C9_DiffSymmetry ==
    (results # EmptyDict /\ results_swapped # EmptyDict) =>
        results.you_have_fixed_user_doesnt_dupes
          = results_swapped.fixed_user_has_you_dont_dupes

C9_Witness ==
    /\ results # EmptyDict
    /\ results_swapped # EmptyDict
    /\ DOMAIN results.you_have_fixed_user_doesnt_dupes = {"B"}
    /\ DOMAIN your_inv = {"A", "B"}
    /\ your_inv["A"].quantity > 1 /\ ~your_inv["A"].tradable

(***************************************************************************)
(* Pagination of fetch_steam_inventory.                                    *)
(***************************************************************************)
\* A step that sends a request: the head of the while loop.
RequestIssued == page_count' = page_count + 1

\* A step that leaves the loops over a page: more_items and last_assetid are read.
PageEnds == pc \in {"assets", "descs"} /\ pc' \notin {"assets", "descs"}

\* The query parameters a request has to carry: no cursor on the first
\* request, afterwards the last_assetid of the page received before.
UrlAfterLatestPage ==
    IF page_count = 0
    THEN [l |-> "english", count |-> "5000"]
    ELSE [l |-> "english", count |-> "5000",
          start_assetid |-> Get(response.data, "last_assetid", None)]

\* The while loop goes on after the page just read (the sleep comes next);
\* otherwise the call returns what it has accumulated.
GoesOn == pc' = "sleep" /\ result' = NoResult

Stops == pc' = "done" /\ result'.kind = "inventory"

\* The server reports more items on the page whose end was just read.
ReportsMoreItems == Get(response'.data, "more_items", FALSE)

PaginatesWhileMoreItems ==
    /\ RequestIssued => url' = UrlAfterLatestPage
    /\ PageEnds => IF ReportsMoreItems THEN GoesOn ELSE Stops
    /\ pc' = "request" => more_items' /\ start_assetid' = Get(response'.data, "last_assetid", None)

PaginatesWhileMoreItemsAndCursor ==
    /\ RequestIssued => url' = UrlAfterLatestPage
    /\ PageEnds => IF ReportsMoreItems /\ Get(response'.data, "last_assetid", "") # ""
                   THEN GoesOn ELSE Stops
    /\ pc' = "request" => more_items' /\ start_assetid' = Get(response'.data, "last_assetid", None)

\* C11 as stated: the first request carries no cursor; after a page with
\* both lists on which the server reports more_items the loop goes on and the
\* next request carries that page's last_assetid; the loop ends after such a
\* page only if the server reports no more items.
C11_PaginatesWhileMoreItems == [][PaginatesWhileMoreItems]_vars

\* C11, amended: the first request carries no cursor; after a page with both
\* lists the loop goes on, and the next request carries that page's
\* last_assetid, exactly if the page reports more_items and names a non-empty
\* last_assetid; otherwise the loop ends and the accumulated items are
\* returned, also when the server reports more items without a cursor.
C11_PaginatesWhileMoreItemsAndCursor == [][PaginatesWhileMoreItemsAndCursor]_vars

\* Three requests were sent, the later ones with the cursors of the pages
\* before them, and the third page ended the loop while reporting more items.
C11_Witness ==
    /\ page_count = 3
    /\ url = [l |-> "english", count |-> "5000", start_assetid |-> "a2"]
    /\ pc = "done"
    /\ result.kind = "inventory"
    /\ Get(response.data, "more_items", FALSE)

(***************************************************************************)
(* The delay between pages.                                                *)
(***************************************************************************)
\* The delays that lie behind: one before each request sent after the first
\* (page_count counts the requests sent), and at the head of the loop the one
\* before the request that comes next.
DelaysDue == IF pc = "request" THEN page_count ELSE page_count - 1

\* C13: time.sleep has been called once for each request after the first, and
\* each call lies between the end of the loops over a page and the request
\* that follows: while a page is processed, once its end is reached
\* (pc = "sleep") and after the call has returned, the calls number one less
\* than the requests, so there is none before the first request, none while
\* a page is processed and none after the last page; when the next request is
\* about to be sent they number as many as the requests sent.
C13_OneDelayBeforeEachLaterRequest ==
    /\ pc \in {"request", "assets", "descs", "sleep", "done"} => sleeps = DelaysDue
    /\ pc = "request" /\ page_count > 0 => more_items /\ response.kind = "object"

\* A call that sent three requests and returned: two delays.
C13_Witness == pc = "done" /\ page_count = 3 /\ sleeps = 2 /\ ~ENABLED Next

(***************************************************************************)
(* Quantities of the returned inventory.                                   *)
(***************************************************************************)
QuantitiesAtLeastOne ==
    \A k \in DOMAIN result.items : result.items[k].quantity >= 1

\* Every asset record iterated over states an amount of at least 1 (a record
\* without 'amount' counts as 1).
AmountsAtLeastOne ==
    \A a \in AssetRecords : seen_assets[a] > 0 => StatedAmount(a) >= 1

\* C12 as stated: every entry of a returned inventory has quantity >= 1,
\* whatever the pages held.
C12_QuantitiesAtLeastOne ==
    result.kind = "inventory" => QuantitiesAtLeastOne

\* C12, amended: every entry of a returned inventory has quantity >= 1
\* provided every 'amount' the pages stated is at least 1; the code stores
\* the sum of the amounts as it reads them and does not test it.
C12_QuantitiesAtLeastOneForAmountsAtLeastOne ==
    result.kind = "inventory" /\ AmountsAtLeastOne => QuantitiesAtLeastOne

\* An inventory was returned after two asset records were read, one with
\* an 'amount' and one without, and it holds an entry.
C12_Witness ==
    /\ Returned
    /\ result.kind = "inventory"
    /\ AmountsAtLeastOne
    /\ \E a \in AssetRecords : "amount" \in DOMAIN a /\ seen_assets[a] > 0
    /\ \E a \in AssetRecords : "amount" \notin DOMAIN a /\ seen_assets[a] > 0
    /\ DOMAIN result.items # {}

(***************************************************************************)
(* Properties of the session state machine.  Every state is the end of a   *)
(* script run.                                                             *)
(***************************************************************************)
\* A string of exactly 17 characters, all of them digits.
IsSeventeenDigits(v) ==
    /\ v.type = "str"
    /\ Len(v.chars) = SteamIdLength
    /\ \A i \in 1..Len(v.chars) : v.chars[i] \in Digits

\* The id the latest run was given: the digits the OpenID answer names, if
\* the run saw the answer, or the text submitted with "Analyze Inventories".
ReceivedId ==
    IF run_input.mode = "id_res" /\ st_query_params = "proxy" /\ run_input.claimed_id # NoneType
    THEN re_search(run_input.claimed_id)
    ELSE IF run_input.button = "manual_analyze_button" THEN Str(run_input.text)
    ELSE NoneType

\* C14: in every script run, after any sequence of OpenID answers, manual
\* submissions, clicks of "Analyze Another SteamID" and reruns,
\* run_inventory_analysis is called only with a string of 17 digits; a run
\* that was given an id failing this check ends with queried_steam_id None
\* and analysis_triggered_once False; and initiate_auto_analysis is False at
\* the end of every run.
C14_AnalysisOnlyForSteamId64 ==
    /\ analysis_arg # NoneType => IsSeventeenDigits(analysis_arg)
    /\ Truthy(ReceivedId) /\ ~IsSeventeenDigits(ReceivedId)
           => queried_steam_id = NoneType /\ ~analysis_triggered_once
    /\ ~initiate_auto_analysis

\* run_inventory_analysis was called with the 17 digits an OpenID answer
\* named, in the run that received the answer.
C14_Witness ==
    /\ run_input.mode = "id_res"
    /\ run_input.claimed_id # NoneType
    /\ analysis_arg = Str(SteamIdA)
    /\ last_analyzed_id = Str(SteamIdA)
    /\ rendered = "results"

\* A run that was given an id of 18 digits by the OpenID answer after
\* another id had been analysed in the session.
C14_InvalidIdWitness ==
    /\ ReceivedId = Str(TooLong)
    /\ run_input.mode = "id_res"
    /\ last_analyzed_id = Str(SteamIdB)

====
